---- MODULE Spec2Model ----
(***************************************************************************)
(* etl::variance (variance.h) and etl::standard_deviation                  *)
(* (standard_deviation.h): two streaming accumulators that keep a running  *)
(* sum, a running sum of squares and a counter, and compute the variance   *)
(* (and its square root) lazily behind a "recalculate" flag.               *)
(*                                                                         *)
(* The model is one object of either class, of either type flag, for the   *)
(* integer instantiation <TInput = int, TCalc = long> on a target whose    *)
(* int has IntBits bits and whose long is twice as wide.  The double       *)
(* results are held as the exact rational they stand for (every integer    *)
(* of the model is far below 2^53, so the conversions to double are        *)
(* exact), extended with +inf, -inf and NaN as IEEE-754 produces them.     *)
(* The rounding of the quotient 1.0 / (n * (n - Adjustment)) and of the    *)
(* final product is not represented: a double result stands for the real   *)
(* number it approximates.                                                 *)
(***************************************************************************)
EXTENDS Integers, Sequences, FiniteSets

\* ------------------------------------------------------------------ bounds
\* Most values held by the accumulator at once (added since the last clear).
MaxAdds == 3
\* Longest range handed to add(first, last) or to the range constructor.
MaxRange == 2
\* An input whose square does not fit the int of the target.
BigValue == 200

\* The inputs the callers pass.
InputValues == {-1, 2, BigValue}

\* ------------------------------------------------- the integer types
\* Width of int, the type in which value * value is evaluated.
IntBits == 16
IntMax == 2^(IntBits - 1) - 1
IntMin == -(2^(IntBits - 1))
\* Largest and smallest value of TCalc (long, 32 bits).
TCalcMax == 2147483647
TCalcMin == -TCalcMax - 1

InInt(x) == IntMin <= x /\ x <= IntMax
InTCalc(x) == TCalcMin <= x /\ x <= TCalcMax

\* Two's complement reduction to the width of int.
WrapInt(x) == ((x - IntMin) % 2^IntBits) + IntMin

\* What a build makes of a signed multiplication that overflows int
\* (undefined behaviour): the product reduced to the width of int, or the
\* product of a widening multiply.
OverflowModes == {"wrap", "widen"}

\* ------------------------------------------------------------- double
RECURSIVE GCD(_, _)
GCD(a, b) == IF b = 0 THEN a ELSE GCD(b, a % b)

Abs(x) == IF x < 0 THEN -x ELSE x
Sign(x) == IF x < 0 THEN -1 ELSE IF x > 0 THEN 1 ELSE 0

NaN == [k |-> "nan", n |-> 0, d |-> 0]
Inf(s) == [k |-> "inf", n |-> s, d |-> 0]
\* The finite double n/d (d > 0), in lowest terms.
Fin(n, d) == LET g == GCD(Abs(n), d)
             IN  [k |-> "fin", n |-> n \div g, d |-> d \div g]
DInt(i) == Fin(i, 1)
DZero == DInt(0)
DOne == DInt(1)

IsNaN(a) == a.k = "nan"
DSign(a) == IF a.k = "sqrt" THEN 1 ELSE Sign(a.n)
\* a > 0 and a >= 0 as the comparisons of double: both false on NaN.
DGt0(a) == ~IsNaN(a) /\ DSign(a) > 0
DGe0(a) == ~IsNaN(a) /\ DSign(a) >= 0

\* a * b
DMul(a, b) ==
  IF IsNaN(a) \/ IsNaN(b) THEN NaN
  ELSE IF a.k = "inf" \/ b.k = "inf"
       THEN IF a.n = 0 \/ b.n = 0 THEN NaN ELSE Inf(Sign(a.n) * Sign(b.n))
       ELSE Fin(a.n * b.n, a.d * b.d)

\* a - b
DSub(a, b) ==
  IF IsNaN(a) \/ IsNaN(b) THEN NaN
  ELSE IF a.k = "inf"
       THEN IF b.k = "inf" /\ b.n = a.n THEN NaN ELSE a
       ELSE IF b.k = "inf" THEN Inf(-b.n)
       ELSE Fin(a.n * b.d - b.n * a.d, a.d * b.d)

\* a / b; the zeros of the model are all +0.0
DDiv(a, b) ==
  IF IsNaN(a) \/ IsNaN(b) THEN NaN
  ELSE IF a.k = "inf"
       THEN IF b.k = "inf" THEN NaN
            ELSE Inf(IF b.n < 0 THEN -a.n ELSE a.n)
       ELSE IF b.k = "inf" THEN DZero
       ELSE IF b.n = 0
            THEN IF a.n = 0 THEN NaN ELSE Inf(Sign(a.n))
            ELSE Fin(a.n * b.d * Sign(b.n), a.d * Abs(b.n))

\* sqrt(a) of <math.h> for a > 0: the positive root, kept symbolically.
sqrt(a) == IF a.k = "inf" THEN a ELSE [k |-> "sqrt", n |-> a.n, d |-> a.d]

\* ------------------------------------------------------------- the object
VARIABLES
  cls,                       \* "variance" or "standard_deviation"
  Variance_Type,             \* the bool template argument of the class
  overflow,                  \* how the build treats an overflowing int product
  sum_of_squares, sum, counter,          \* the traits base
  variance_value, standard_deviation_value, recalculate,
  added,                     \* history: the values added since the last clear
  overflowed,                \* history: a product since the last clear left int
  fresh,                     \* history: no clear() since the constructor
  ret,                       \* the last call, the value it returned and
                             \* the one the same getter returned before it
  seen                       \* what each getter returned since the last add

fields == <<sum_of_squares, sum, counter,
            variance_value, standard_deviation_value, recalculate>>
build == <<cls, Variance_Type, overflow>>
vars == <<cls, Variance_Type, overflow, sum_of_squares, sum, counter,
          variance_value, standard_deviation_value, recalculate,
          added, overflowed, fresh, ret, seen>>

\* variance_type and standard_deviation_type
Sample == FALSE
Population == TRUE

\* The object as one value
self == [sum_of_squares |-> sum_of_squares, sum |-> sum, counter |-> counter,
         variance_value |-> variance_value,
         standard_deviation_value |-> standard_deviation_value,
         recalculate |-> recalculate]

\* value * value, evaluated in int before the conversion to TCalc
square(value, mode) ==
  IF InInt(value * value) \/ mode = "widen" THEN value * value
  ELSE WrapInt(value * value)

\* variance_traits::clear and standard_deviation_traits::clear
variance_traits_clear(this) ==
  [this EXCEPT !.sum_of_squares = 0, !.sum = 0, !.counter = 0]

standard_deviation_traits_clear(this) ==
  [this EXCEPT !.sum_of_squares = 0, !.sum = 0, !.counter = 0]

\* Fault: Adjustment with the flag read the wrong way round.
variance_Adjustment_inverted(type) == IF type = Population THEN 1 ELSE 0

\* static const int Adjustment
variance_Adjustment(type) == IF type = Population THEN 0 ELSE 1

standard_deviation_Adjustment(type) == IF type = Population THEN 0 ELSE 1

\* Fault: add(value) that does not count the value.
variance_add_uncounted(this, value, mode) ==
  [this EXCEPT !.sum_of_squares = @ + square(value, mode),
               !.sum = @ + value,
               !.recalculate = TRUE]

\* Fault: add(value) that assigns the sum instead of accumulating it.
standard_deviation_add_assigning(this, value, mode) ==
  [this EXCEPT !.sum_of_squares = @ + square(value, mode),
               !.sum = value,
               !.counter = @ + 1,
               !.recalculate = TRUE]

\* void add(TInput value)
variance_add(this, value, mode) ==
  [this EXCEPT !.sum_of_squares = @ + square(value, mode),
               !.sum = @ + value,
               !.counter = @ + 1,
               !.recalculate = TRUE]

standard_deviation_add(this, value, mode) ==
  [this EXCEPT !.sum_of_squares = @ + square(value, mode),
               !.sum = @ + value,
               !.counter = @ + 1,
               !.recalculate = TRUE]

\* void add(TIterator first, TIterator last)
RECURSIVE variance_add_range(_, _, _)
variance_add_range(this, range, mode) ==
  IF range = <<>> THEN this
  ELSE variance_add_range(variance_add(this, Head(range), mode),
                          Tail(range), mode)

RECURSIVE standard_deviation_add_range(_, _, _)
standard_deviation_add_range(this, range, mode) ==
  IF range = <<>> THEN this
  ELSE standard_deviation_add_range(
         standard_deviation_add(this, Head(range), mode), Tail(range), mode)

\* Fault: get_variance() that zeroes variance_value before it tests
\* recalculate.
variance_get_variance_zeroing(this, type) ==
  IF this.recalculate
  THEN IF this.counter # 0
       THEN LET n == DInt(this.counter)
                adjustment ==
                  DDiv(DOne, DMul(n, DSub(n, DInt(variance_Adjustment(type)))))
                square_of_sum == DInt(this.sum * this.sum)
            IN  [this EXCEPT
                   !.variance_value =
                      DMul(DSub(DMul(n, DInt(this.sum_of_squares)),
                                square_of_sum),
                           adjustment),
                   !.recalculate = FALSE]
       ELSE [this EXCEPT !.variance_value = DZero, !.recalculate = FALSE]
  ELSE [this EXCEPT !.variance_value = DZero]

\* Fault: get_variance() that subtracts the other way round.
variance_get_variance_swapped(this, type) ==
  IF this.recalculate
  THEN IF this.counter # 0
       THEN LET n == DInt(this.counter)
                adjustment ==
                  DDiv(DOne, DMul(n, DSub(n, DInt(variance_Adjustment(type)))))
                square_of_sum == DInt(this.sum * this.sum)
            IN  [this EXCEPT
                   !.variance_value =
                      DMul(DSub(square_of_sum,
                                DMul(n, DInt(this.sum_of_squares))),
                           adjustment),
                   !.recalculate = FALSE]
       ELSE [this EXCEPT !.variance_value = DZero, !.recalculate = FALSE]
  ELSE this

\* double get_variance() of variance: the object after the call; the value
\* returned is its variance_value.
variance_get_variance(this, type) ==
  IF this.recalculate
  THEN IF this.counter # 0
       THEN LET n == DInt(this.counter)
                adjustment ==
                  DDiv(DOne, DMul(n, DSub(n, DInt(variance_Adjustment(type)))))
                \* sum * sum is a product of TCalc, converted afterwards
                square_of_sum == DInt(this.sum * this.sum)
            IN  [this EXCEPT
                   !.variance_value =
                      DMul(DSub(DMul(n, DInt(this.sum_of_squares)),
                                square_of_sum),
                           adjustment),
                   !.recalculate = FALSE]
       ELSE [this EXCEPT !.variance_value = DZero, !.recalculate = FALSE]
  ELSE this

\* void calculate() of standard_deviation
standard_deviation_calculate(this, type) ==
  IF this.recalculate
  THEN IF this.counter # 0
       THEN LET n == DInt(this.counter)
                adjustment ==
                  DDiv(DOne,
                       DMul(n, DSub(n, DInt(standard_deviation_Adjustment(type)))))
                square_of_sum == DInt(this.sum * this.sum)
                v == DMul(DSub(DMul(n, DInt(this.sum_of_squares)),
                               square_of_sum),
                          adjustment)
            IN  [this EXCEPT
                   !.variance_value = v,
                   !.standard_deviation_value =
                      IF DGt0(v) THEN sqrt(v) ELSE DZero,
                   !.recalculate = FALSE]
       ELSE [this EXCEPT !.variance_value = DZero,
                         !.standard_deviation_value = DZero,
                         !.recalculate = FALSE]
  ELSE this

\* The constructors: variance() and standard_deviation(), then the ones
\* taking a range.
variance_ctor ==
  variance_traits_clear(
    [sum_of_squares |-> 0, sum |-> 0, counter |-> 0,
     variance_value |-> DZero, standard_deviation_value |-> DZero,
     recalculate |-> TRUE])

standard_deviation_ctor ==
  standard_deviation_traits_clear(
    [sum_of_squares |-> 0, sum |-> 0, counter |-> 0,
     variance_value |-> DZero, standard_deviation_value |-> DZero,
     recalculate |-> TRUE])

variance_ctor_range(range, mode) ==
  variance_add_range(variance_ctor, range, mode)

standard_deviation_ctor_range(range, mode) ==
  standard_deviation_add_range(standard_deviation_ctor, range, mode)

\* ------------------------------------------------------------ the calls
Classes == {"variance", "standard_deviation"}

\* The ranges [first, last) the callers pass.
Ranges == UNION {[1..len -> InputValues] : len \in 0..MaxRange}

NoValue == [k |-> "none", n |-> 0, d |-> 0]
\* A size_t, as count() returns it.
SizeT(i) == [k |-> "size_t", n |-> i, d |-> 1]
Void == [op |-> "void", val |-> NoValue, prev |-> NoValue]

Store(this) ==
  /\ sum_of_squares' = this.sum_of_squares
  /\ sum' = this.sum
  /\ counter' = this.counter
  /\ variance_value' = this.variance_value
  /\ standard_deviation_value' = this.standard_deviation_value
  /\ recalculate' = this.recalculate

\* Some element of the range has a square outside int.
Overflows(range) == \E i \in 1..Len(range) : ~InInt(range[i] * range[i])

Init ==
  /\ cls \in Classes
  /\ Variance_Type \in {Sample, Population}
  /\ overflow \in OverflowModes
  /\ \E range \in Ranges :
       LET this == IF range = <<>>
                   THEN IF cls = "variance"
                        THEN variance_ctor ELSE standard_deviation_ctor
                   ELSE IF cls = "variance"
                        THEN variance_ctor_range(range, overflow)
                        ELSE standard_deviation_ctor_range(range, overflow)
       IN  /\ sum_of_squares = this.sum_of_squares
           /\ sum = this.sum
           /\ counter = this.counter
           /\ variance_value = this.variance_value
           /\ standard_deviation_value = this.standard_deviation_value
           /\ recalculate = this.recalculate
           /\ added = range
           /\ overflowed = Overflows(range)
  /\ fresh = TRUE
  /\ ret = Void
  /\ seen = [variance |-> NoValue, standard_deviation |-> NoValue]

\* The history kept beside an add of the values of range.
NoteAdded(range) ==
  /\ added' = added \o range
  /\ overflowed' = (overflowed \/ Overflows(range))
  /\ seen' = IF range = <<>> THEN seen
             ELSE [variance |-> NoValue, standard_deviation |-> NoValue]
  /\ ret' = Void
  /\ UNCHANGED <<build, fresh>>

\* add(value)
Add(value) ==
  /\ Len(added) < MaxAdds
  /\ Store(IF cls = "variance"
           THEN variance_add(self, value, overflow)
           ELSE standard_deviation_add(self, value, overflow))
  /\ NoteAdded(<<value>>)

\* add(first, last)
AddRange(range) ==
  /\ Len(added) + Len(range) <= MaxAdds
  /\ Store(IF cls = "variance"
           THEN variance_add_range(self, range, overflow)
           ELSE standard_deviation_add_range(self, range, overflow))
  /\ NoteAdded(range)

\* operator ()(value): add(value)
Call(value) ==
  /\ Len(added) < MaxAdds
  /\ Store(IF cls = "variance"
           THEN variance_add(self, value, overflow)
           ELSE standard_deviation_add(self, value, overflow))
  /\ NoteAdded(<<value>>)

\* operator ()(first, last): add(first, last)
CallRange(range) ==
  /\ Len(added) + Len(range) <= MaxAdds
  /\ Store(IF cls = "variance"
           THEN variance_add_range(self, range, overflow)
           ELSE standard_deviation_add_range(self, range, overflow))
  /\ NoteAdded(range)

\* The object after the recomputation a getter starts with.
Refreshed ==
  IF cls = "variance"
  THEN variance_get_variance(self, Variance_Type)
  ELSE standard_deviation_calculate(self, Variance_Type)

\* get_variance()
GetVariance ==
  /\ Store(Refreshed)
  /\ ret' = [op |-> "get_variance", val |-> Refreshed.variance_value,
             prev |-> seen.variance]
  /\ seen' = [seen EXCEPT !.variance = Refreshed.variance_value]
  /\ UNCHANGED <<build, added, overflowed, fresh>>

\* get_standard_deviation(), of standard_deviation only
GetStandardDeviation ==
  /\ cls = "standard_deviation"
  /\ Store(Refreshed)
  /\ ret' = [op |-> "get_standard_deviation",
             val |-> Refreshed.standard_deviation_value,
             prev |-> seen.standard_deviation]
  /\ seen' = [seen EXCEPT
                !.standard_deviation = Refreshed.standard_deviation_value]
  /\ UNCHANGED <<build, added, overflowed, fresh>>

\* operator double(): get_variance() of variance, get_standard_deviation()
\* of standard_deviation
ToDouble ==
  /\ Store(Refreshed)
  /\ IF cls = "variance"
     THEN /\ ret' = [op |-> "double", val |-> Refreshed.variance_value,
                     prev |-> seen.variance]
          /\ seen' = [seen EXCEPT !.variance = Refreshed.variance_value]
     ELSE /\ ret' = [op |-> "double",
                     val |-> Refreshed.standard_deviation_value,
                     prev |-> seen.standard_deviation]
          /\ seen' = [seen EXCEPT
                        !.standard_deviation =
                           Refreshed.standard_deviation_value]
  /\ UNCHANGED <<build, added, overflowed, fresh>>

\* count()
Count ==
  /\ ret' = [op |-> "count", val |-> SizeT(counter), prev |-> NoValue]
  /\ UNCHANGED <<build, fields, added, overflowed, fresh, seen>>

\* clear(), the public member of the traits base
Clear ==
  /\ Store(IF cls = "variance"
           THEN variance_traits_clear(self)
           ELSE standard_deviation_traits_clear(self))
  /\ added' = <<>>
  /\ overflowed' = FALSE
  /\ fresh' = FALSE
  /\ ret' = Void
  /\ UNCHANGED <<build, seen>>

Next ==
  \/ \E value \in InputValues : Add(value)
  \/ \E range \in Ranges : AddRange(range)
  \/ \E value \in InputValues : Call(value)
  \/ \E range \in Ranges : CallRange(range)
  \/ GetVariance
  \/ GetStandardDeviation
  \/ ToDouble
  \/ Count
  \/ Clear

Spec == Init /\ [][Next]_vars

\* ------------------------------------------------------- the properties
RECURSIVE SumOf(_)
SumOf(seq) == IF seq = <<>> THEN 0 ELSE Head(seq) + SumOf(Tail(seq))

RECURSIVE SumOfSquares(_)
SumOfSquares(seq) ==
  IF seq = <<>> THEN 0 ELSE Head(seq) * Head(seq) + SumOfSquares(Tail(seq))

AllEqual(seq) == \A i, j \in 1..Len(seq) : seq[i] = seq[j]

\* bias of the claims: 0 for Population, 1 for Sample
Bias == IF Variance_Type = Population THEN 0 ELSE 1

\* The sum of the squared deviations from the mean, divided by n - bias:
\* with m = Len(seq) and S the total, sum (m*x - S)^2 / (m^2 * (m - bias)).
RECURSIVE SquaredDeviations(_, _, _)
SquaredDeviations(seq, m, S) ==
  IF seq = <<>> THEN 0
  ELSE (m * Head(seq) - S) * (m * Head(seq) - S)
       + SquaredDeviations(Tail(seq), m, S)

Textbook(seq) ==
  DDiv(Fin(SquaredDeviations(seq, Len(seq), SumOf(seq)), Len(seq) * Len(seq)),
       DInt(Len(seq) - Bias))

\* The calculation applied to the sums as they are now, whatever the flag.
Recomputed ==
  IF cls = "variance"
  THEN variance_get_variance([self EXCEPT !.recalculate = TRUE], Variance_Type)
  ELSE standard_deviation_calculate([self EXCEPT !.recalculate = TRUE],
                                    Variance_Type)

Returned(op) == ret.op = op

\* C1: after n >= 2 values added to a freshly constructed accumulator,
\* get_variance() returns the sum of the squared deviations from the mean
\* divided by n - bias, in both classes.
C1_VarianceIsTextbook ==
  (fresh /\ Len(added) >= 2 /\ Returned("get_variance"))
    => ret.val = Textbook(added)

\* C2: whenever the accumulator holds no observation (count() = 0), after
\* construction or after a clear() that follows adds and getter calls,
\* get_variance() returns 0.0 and get_standard_deviation() returns 0.0.
C2_EmptyReturnsZero ==
  (counter = 0 /\ (Returned("get_variance") \/ Returned("get_standard_deviation")))
    => ret.val = DZero

\* C3: count() is the number of values added since construction or the last
\* clear(), by single adds or by ranges; getters do not change it and
\* clear() makes it 0.
C3_CountIsNumberAdded ==
  /\ counter = Len(added)
  /\ Returned("count") => ret.val = SizeT(Len(added))

C3_Witness ==
  /\ Returned("count")
  /\ ~fresh
  /\ counter = 3
  /\ seen.variance # NoValue

\* C8: sum is the exact total of the values added since construction or the
\* last clear and sum_of_squares the exact total of their squares, whenever
\* those totals are representable in TCalc.
C8_SumsAreExact ==
  (InTCalc(SumOf(added)) /\ InTCalc(SumOfSquares(added)))
    => (sum = SumOf(added) /\ sum_of_squares = SumOfSquares(added))

\* C9: whenever the accumulator is Clean (recalculate is false) the cached
\* variance, and the cached standard deviation, are the formula applied to
\* the current sum, sum_of_squares and counter.
C9_CleanCacheIsCurrent ==
  ~recalculate =>
    /\ variance_value = Recomputed.variance_value
    /\ cls = "standard_deviation" =>
         standard_deviation_value = Recomputed.standard_deviation_value

\* C4: get_standard_deviation() is never negative, is 0.0 whenever the
\* variance computed for the current sums is not positive, and otherwise is
\* the square root of what get_variance() returns in the same state.
C4_StandardDeviationIsRoot ==
  (cls = "standard_deviation" /\ Returned("get_standard_deviation")) =>
    /\ DGe0(ret.val)
    /\ IF DGt0(Recomputed.variance_value)
       THEN ret.val = sqrt(standard_deviation_calculate(self, Variance_Type)
                             .variance_value)
       ELSE ret.val = DZero

\* C5: a getter called again with no add since its last call returns the
\* value it returned then, and no getter call changes sum, sum_of_squares
\* or counter.
C5_GettersAreIdempotent ==
  [][(GetVariance \/ GetStandardDeviation \/ ToDouble) =>
       /\ UNCHANGED <<sum_of_squares, sum, counter>>
       /\ ret'.prev # NoValue => ret'.val = ret'.prev]_vars

C5_Witness ==
  /\ Returned("get_standard_deviation")
  /\ ret.prev # NoValue
  /\ ret.val.k = "sqrt"
  /\ counter = 3

\* The values of seq in ascending order.
RECURSIVE Insert(_, _)
Insert(x, seq) ==
  IF seq = <<>> THEN <<x>>
  ELSE IF x <= Head(seq) THEN <<x>> \o seq
  ELSE <<Head(seq)>> \o Insert(x, Tail(seq))

RECURSIVE Sorted(_)
Sorted(seq) == IF seq = <<>> THEN <<>> ELSE Insert(Head(seq), Sorted(Tail(seq)))

\* A fresh object to which the values of seq were added one at a time, and
\* the same after its recomputation.
AddedOneByOne(seq) ==
  IF cls = "variance"
  THEN variance_add_range(variance_ctor, seq, overflow)
  ELSE standard_deviation_add_range(standard_deviation_ctor, seq, overflow)

RefreshedFrom(this) ==
  IF cls = "variance"
  THEN variance_get_variance(this, Variance_Type)
  ELSE standard_deviation_calculate(this, Variance_Type)

C7_SampleOfOneIsNotFinite ==
  /\ (Variance_Type = Sample /\ counter = 1 /\ Returned("get_variance"))
       => ret.val.k \in {"inf", "nan"}
  /\ (Variance_Type = Population /\ counter >= 1) =>
       /\ counter * (counter - (IF cls = "variance"
                                THEN variance_Adjustment(Variance_Type)
                                ELSE standard_deviation_Adjustment(Variance_Type)))
            # 0
       /\ Returned("get_variance") => ret.val.k = "fin"

C7_Witness ==
  /\ Variance_Type = Sample
  /\ counter = 1
  /\ Returned("get_variance")
  /\ ret.val = NaN

\* C10: with no integer overflow since the last clear and count() >= 1, the
\* numerator n * sum_of_squares - sum * sum is >= 0 and is 0 exactly when all
\* the values are equal; get_variance() of variance is then never negative
\* for n >= 2 and get_standard_deviation() is 0.0 exactly when all the
\* values are equal.
C10_NumeratorIsNonNegative ==
  (counter >= 1 /\ ~overflowed) =>
    LET numerator == counter * sum_of_squares - sum * sum
    IN  /\ numerator >= 0
        /\ numerator = 0 <=> AllEqual(added)
        /\ (cls = "variance" /\ counter >= 2 /\ Returned("get_variance"))
             => DGe0(ret.val)
        /\ (cls = "standard_deviation" /\ Returned("get_standard_deviation"))
             => (ret.val = DZero <=> AllEqual(added))

C10_Witness ==
  /\ cls = "standard_deviation"
  /\ Returned("get_standard_deviation")
  /\ ~overflowed
  /\ added = <<2, -1, 2>>
  /\ ret.val.k = "sqrt"

====
